---- MODULE Spec2Model ----
(***************************************************************************)
(* A model of the Operand Go SDK (src/operand.go): the Client and its      *)
(* doRequest transport, the typed operations built on it, and Object.Wait, *)
(* the polling loop that re-fetches an object until it leaves "indexing".  *)
(*                                                                         *)
(* One caller goroutine runs either one typed operation or one Wait.  The  *)
(* environment runs beside it: the context may be cancelled at any time,   *)
(* the client may be reconfigured at any time, and the remote service      *)
(* answers each round trip with any response.                              *)
(***************************************************************************)
EXTENDS Integers, Sequences, FiniteSets, TLC

(***************************************************************************)
(* Bounds of the model.                                                    *)
(***************************************************************************)
\* Wait starts at most this many fetches in a run of the model.
MaxFetches == 11

(***************************************************************************)
(* Program constants.                                                      *)
(***************************************************************************)
\* time.Millisecond * 300, in milliseconds
ShortSleep == 300
\* time.Second, in milliseconds
LongSleep == 1000
\* iterations < 10
ShortIterations == 10
\* resp.StatusCode >= 400
ErrorStatus == 400

DefaultEndpoint == <<"p">>

IndexingStatusIndexing == "indexing"
IndexingStatusReady == "ready"
IndexingStatusError == "error"

(***************************************************************************)
(* Values.                                                                 *)
(***************************************************************************)
ApiKeys == {"", "key"}

\* Endpoint strings are sequences of characters; "\n" stands for a character
\* url.Parse rejects.
EndpointArgs == {<<"h">>, <<"h", "/">>, <<"h", "/", "/">>, <<"\n">>}

\* *http.Client values: nil, http.DefaultClient, a caller's own client.
HTTPClientArgs == {"nil", "custom"}

IDs == {"a", "b"}

Statuses == {IndexingStatusIndexing, IndexingStatusReady, IndexingStatusError}

\* Object, reduced to its identifier and its indexing status.
Objects == [ID : IDs, IndexingStatus : Statuses]

\* new(Object): every field at its zero value.
ZeroObject == [ID |-> "", IndexingStatus |-> ""]

\* What a JSON document can decode to: "{}" decodes to the zero Object.
Served == Objects \cup {ZeroObject}

\* The entities Wait is called on.
WaitArgs == {e \in Objects : e.ID = "a"}

\* Response bodies: a JSON object, a JSON object one of whose fields has the
\* wrong type, bytes that are no JSON, and plain text of an error page.
Bodies ==
    {[kind |-> "object", val |-> e] : e \in Served}
    \cup {[kind |-> "mistyped", val |-> [ID |-> "b", IndexingStatus |-> IndexingStatusReady]],
          [kind |-> "syntax", val |-> ZeroObject],
          [kind |-> "text", val |-> ZeroObject]}

NoBody == [kind |-> "none", val |-> ZeroObject]

StatusCodes == {200, 400, 404}

StatusText(code) ==
    CASE code = 200 -> "OK"
      [] code = 400 -> "Bad Request"
      [] code = 404 -> "Not Found"
      [] OTHER -> ""

\* resp.Status as net/http fills it in: the code followed by its text.
StatusLine(code) == [code |-> code, reason |-> StatusText(code)]

NoStatus == [code |-> 0, reason |-> ""]

\* The responses the remote service may give.
Responses ==
    {[StatusCode |-> 200, Status |-> StatusLine(200), Body |-> b] : b \in Bodies}
    \cup {[StatusCode |-> s, Status |-> StatusLine(s), Body |-> b] :
            s \in {400, 404},
            b \in {[kind |-> "text", val |-> ZeroObject],
                   [kind |-> "object", val |-> [ID |-> "b", IndexingStatus |-> IndexingStatusReady]]}}

NoResp == [StatusCode |-> 0, Status |-> NoStatus, Body |-> NoBody]

(***************************************************************************)
(* Errors.                                                                 *)
(***************************************************************************)
Err(kind) == [kind |-> kind, status |-> NoStatus, body |-> NoBody]

NoErr == Err("nil")
\* ctx.Err() of a cancelled context
CtxErr == Err("context canceled")
\* json.Marshal failed
MarshalErr == Err("marshal")
\* http.NewRequestWithContext failed
BuildErr == Err("build")
\* client.Do failed: the network, or the request's context
NetErr == Err("network")
DoCtxErr == Err("do: context canceled")
\* json.Decoder.Decode failed
DecodeErr == Err("decode")

VARIABLES
    c,              \* the Client: apiKey, endpoint, client
    cancelled,      \* whether ctx.Done() is closed
    upc,            \* the caller: "idle", "op", "wait", "done"
    rpc,            \* doRequest: "off", "build", "client", "do", "handle", "ret"
    rq,             \* doRequest's arguments
    req,            \* the *http.Request built
    httpc,          \* the local variable client of doRequest
    resp,           \* the response of client.Do
    rerr,           \* the error doRequest returns
    dst,            \* the value dst points to
    trips,          \* calls of client.Do in this doRequest
    result,         \* what the typed operation returned
    wpc,            \* Wait: "off", "status", "ctx", "loop", "sleep", "get", "fetching", "done"
    o,              \* the caller's Object
    iterations,     \* Wait's local iterations
    sleepDuration,  \* Wait's local sleepDuration
    werr,           \* the error Wait returned
    entry,          \* history: the Object as passed to Wait
    entryCancelled, \* history: whether ctx was cancelled when Wait was called
    delays,         \* history: the delay that preceded each fetch
    fetches,        \* history: fetches Wait started
    succeeded,      \* history: fetches that succeeded
    failures,       \* history: fetches that failed
    lastFetched,    \* history: the Object the last successful fetch returned
    ferr,           \* history: the error of the last failed fetch
    firedAt,        \* history: Wait's position when ctx was cancelled
    firedFetches,   \* history: fetches started when ctx was cancelled
    started,        \* history: the Client's fields when doRequest was called, kept
                    \* until doRequest has read the Client
    remote          \* the indexing status the remote service holds for the Object

clientVars == <<c>>
reqVars == <<rpc, rq, req, httpc, resp, rerr, dst, trips, started>>
waitVars == <<wpc, o, iterations, sleepDuration, werr>>
histVars == <<entry, entryCancelled, delays, fetches, succeeded, failures,
              lastFetched, ferr>>
fireVars == <<firedAt, firedFetches>>
envVars == <<remote>>
vars == <<c, cancelled, upc, result, reqVars, waitVars, histVars, fireVars, envVars>>

(***************************************************************************)
(* The Client.                                                             *)
(***************************************************************************)
\* strings.TrimSuffix(s, suffix) for a one-character suffix: one trailing
\* occurrence is removed, if there is one.
TrimSuffix(s, suffix) ==
    IF Len(s) > 0 /\ s[Len(s)] = suffix THEN SubSeq(s, 1, Len(s) - 1) ELSE s

NewClient(apiKey) ==
    [apiKey |-> apiKey, endpoint |-> DefaultEndpoint, client |-> "DefaultClient"]

\* No Client: the value of started while no doRequest is in progress.
NoClient == [apiKey |-> "", endpoint |-> <<>>, client |-> "nil"]

WithEndpoint(endpoint) ==
    /\ c' = [c EXCEPT !.endpoint = TrimSuffix(endpoint, "/")]
    /\ UNCHANGED <<envVars, cancelled, upc, result, reqVars, waitVars, histVars, fireVars>>

WithHTTPClient(client) ==
    /\ c' = [c EXCEPT !.client = client]
    /\ UNCHANGED <<envVars, cancelled, upc, result, reqVars, waitVars, histVars, fireVars>>

(***************************************************************************)
(* doRequest.                                                              *)
(***************************************************************************)
\* The arguments of one doRequest call.  body is "nil", "ok" (a value
\* json.Marshal encodes) or "bad" (a value json.Marshal rejects).
Request(op, method, path, body, hasDst) ==
    [op |-> op, method |-> method, path |-> path, body |-> body, hasDst |-> hasDst]

NoRq == Request("none", "", <<>>, "nil", FALSE)

NoReq == [method |-> "", url |-> <<>>, header |-> [h \in {} |-> ""]]

\* url.Parse accepts the URL.
URLValid(url) == \A i \in 1..Len(url) : url[i] # "\n"

\* Mutant of SetHeaders: the Authorization header is set only together with
\* the Content-Type header.
SetHeaders_AuthWithBody(apiKey, hasBody) ==
    [h \in (IF hasBody THEN {"Content-Type"} ELSE {})
           \cup (IF hasBody /\ apiKey # "" THEN {"Authorization"} ELSE {}) |->
        IF h = "Content-Type" THEN "application/json" ELSE apiKey]

\* The header of the request: Content-Type when there is a body,
\* Authorization when the API key is not empty.
SetHeaders(apiKey, hasBody) ==
    [h \in (IF hasBody THEN {"Content-Type"} ELSE {})
           \cup (IF apiKey # "" THEN {"Authorization"} ELSE {}) |->
        IF h = "Content-Type" THEN "application/json" ELSE apiKey]

\* Marshal the body, build the request against c.endpoint, set its header.
BuildRequest(cl, q) ==
    IF q.body = "bad"
    THEN [err |-> MarshalErr, req |-> NoReq]
    ELSE IF ~URLValid(cl.endpoint \o q.path)
    THEN [err |-> BuildErr, req |-> NoReq]
    ELSE [err |-> NoErr,
          req |-> [method |-> q.method,
                   url |-> cl.endpoint \o q.path,
                   header |-> SetHeaders(cl.apiKey, q.body # "nil")]]

\* fmt.Errorf("%s: %s", resp.Status, buf)
StatusErr(status, buf) == [kind |-> "status", status |-> status, body |-> buf]

\* json.NewDecoder(body).Decode(dst): a JSON object replaces the fields of
\* the fresh value; a field of the wrong type is skipped and reported while
\* the others are stored; bytes that are no JSON leave the value alone.
Decode(body, d) ==
    CASE body.kind = "object" -> [err |-> NoErr, dst |-> body.val]
      [] body.kind = "mistyped" -> [err |-> DecodeErr, dst |-> [d EXCEPT !.ID = body.val.ID]]
      [] OTHER -> [err |-> DecodeErr, dst |-> d]

\* Mutant of HandleResponse: the status test is > instead of >=.
HandleResponse_Greater(r, hasDst, d) ==
    IF r.StatusCode > ErrorStatus
    THEN [err |-> StatusErr(r.Status, r.Body), dst |-> d]
    ELSE IF hasDst
    THEN Decode(r.Body, d)
    ELSE [err |-> NoErr, dst |-> d]

\* What doRequest makes of the response.
HandleResponse(r, hasDst, d) ==
    IF r.StatusCode >= ErrorStatus
    THEN [err |-> StatusErr(r.Status, r.Body), dst |-> d]
    ELSE IF hasDst
    THEN Decode(r.Body, d)
    ELSE [err |-> NoErr, dst |-> d]

DoBuild ==
    /\ rpc = "build"
    /\ LET b == BuildRequest(c, rq) IN
        /\ req' = b.req
        /\ rerr' = b.err
        /\ rpc' = IF b.err # NoErr THEN "ret" ELSE "client"
        /\ started' = IF b.err # NoErr THEN NoClient ELSE started
    /\ UNCHANGED <<envVars, c, cancelled, upc, result, rq, httpc, resp, dst, trips,
                   waitVars, histVars, fireVars>>

DoClient ==
    /\ rpc = "client"
    /\ httpc' = IF c.client = "nil" THEN "DefaultClient" ELSE c.client
    /\ rpc' = "do"
    /\ started' = NoClient
    /\ UNCHANGED <<envVars, c, cancelled, upc, result, rq, req, resp, rerr, dst, trips,
                   waitVars, histVars, fireVars>>

\* client.Do(req): with the request's context cancelled it fails; otherwise
\* the network fails or the service answers.
DoSend ==
    /\ rpc = "do"
    /\ trips' = trips + 1
    /\ IF cancelled
       THEN rerr' = DoCtxErr /\ rpc' = "ret" /\ resp' = resp
       ELSE \/ rerr' = NetErr /\ rpc' = "ret" /\ resp' = resp
            \/ \E r \in Responses :
                  resp' = r /\ rpc' = "handle" /\ rerr' = rerr
    /\ UNCHANGED <<envVars, c, cancelled, upc, result, started, rq, req, httpc, dst,
                   waitVars, histVars, fireVars>>

DoHandle ==
    /\ rpc = "handle"
    /\ LET h == HandleResponse(resp, rq.hasDst, dst) IN
        /\ rerr' = h.err
        /\ dst' = h.dst
    /\ rpc' = "ret"
    /\ UNCHANGED <<envVars, c, cancelled, upc, result, started, rq, req, httpc, resp, trips,
                   waitVars, histVars, fireVars>>

(***************************************************************************)
(* The typed operations.                                                   *)
(***************************************************************************)
\* GetObject's call of doRequest.
GetObjectRequest(id, count) ==
    Request("GetObject", "GET",
            <<"/v3/objects/", id>> \o (IF count THEN <<"?count=true">> ELSE <<>>),
            "nil", TRUE)

\* The doRequest call of every typed operation, for every argument.
TypedOps ==
    {Request("CreateObject", "POST", <<"/v3/objects">>, b, TRUE) : b \in {"ok", "bad"}}
    \cup {Request("ListObjects", "GET", <<"/v3/objects">>, "ok", TRUE)}
    \cup {GetObjectRequest(id, count) : id \in IDs, count \in BOOLEAN}
    \cup {Request("UpdateObject", "PUT", <<"/v3/objects/", id>>, b, TRUE) :
            id \in IDs, b \in {"ok", "bad"}}
    \cup {Request("DeleteObject", "DELETE", <<"/v3/objects/", id>>, "nil", TRUE) : id \in IDs}
    \cup {Request("SearchContents", "POST", <<"/v3/search/contents">>, "ok", TRUE),
          Request("SearchObjects", "POST", <<"/v3/search/objects">>, "ok", TRUE),
          Request("SearchRelated", "POST", <<"/v3/search/related">>, "ok", TRUE),
          Request("CompletionAnswer", "POST", <<"/v3/completion/answer">>, "ok", TRUE),
          Request("CompletionTypeAhead", "POST", <<"/v3/completion/typeahead">>, "ok", TRUE),
          Request("CreateTrigger", "POST", <<"/v3/triggers">>, "ok", TRUE),
          Request("ListTriggers", "GET", <<"/v3/triggers">>, "ok", TRUE),
          Request("Feedback", "POST", <<"/v3/feedback">>, "ok", FALSE)}
    \cup {Request("GetTrigger", "GET", <<"/v3/triggers/", id>>, "nil", TRUE) : id \in IDs}
    \cup {Request("DeleteTrigger", "DELETE", <<"/v3/triggers/", id>>, "nil", TRUE) : id \in IDs}

NoResult == [ptr |-> "nil", obj |-> ZeroObject, err |-> NoErr]

\* Mutant of TypedReturn: the value decoded so far is returned with the error.
TypedReturn_KeepObject(err, d, hasDst) ==
    IF hasDst
    THEN [ptr |-> "obj", obj |-> d, err |-> err]
    ELSE [ptr |-> "nil", obj |-> ZeroObject, err |-> err]

\* if err := c.doRequest(...); err != nil { return nil, err }; return obj, nil
TypedReturn(err, d, hasDst) ==
    IF err # NoErr
    THEN [ptr |-> "nil", obj |-> ZeroObject, err |-> err]
    ELSE IF hasDst
    THEN [ptr |-> "obj", obj |-> d, err |-> NoErr]
    ELSE NoResult

\* The caller calls a typed operation: it allocates the result and calls doRequest.
CallOp(q) ==
    /\ upc = "idle"
    /\ upc' = "op"
    /\ rq' = q
    /\ rpc' = "build"
    /\ req' = NoReq
    /\ httpc' = "nil"
    /\ resp' = NoResp
    /\ rerr' = NoErr
    /\ dst' = ZeroObject
    /\ trips' = 0
    /\ started' = c
    /\ UNCHANGED <<envVars, c, cancelled, result, waitVars, histVars, fireVars>>

\* doRequest returns and the typed operation returns to the caller.
OpReturn ==
    /\ upc = "op"
    /\ rpc = "ret"
    /\ result' = TypedReturn(rerr, dst, rq.hasDst)
    /\ upc' = "done"
    /\ UNCHANGED <<envVars, c, cancelled, reqVars, waitVars, histVars, fireVars>>

(***************************************************************************)
(* Object.Wait.                                                            *)
(***************************************************************************)
\* Mutant of SleepFor: the short sleep lasts one iteration longer.
SleepFor_OffByOne(n) ==
    IF n = 0 THEN 0
    ELSE IF n <= ShortIterations THEN ShortSleep
    ELSE LongSleep

\* The sleep the loop chooses for an iteration, in milliseconds.
SleepFor(n) ==
    IF n = 0 THEN 0
    ELSE IF n < ShortIterations THEN ShortSleep
    ELSE LongSleep

\* Mutant of AssignObject: only the indexing status is copied.
AssignObject_StatusOnly(old, obj) ==
    [old EXCEPT !.IndexingStatus = obj.IndexingStatus]

\* *o = *obj
AssignObject(old, obj) == obj

\* The caller calls o.Wait(ctx, client).
CallWait(e) ==
    /\ upc = "idle"
    /\ upc' = "wait"
    /\ wpc' = "status"
    /\ o' = e
    /\ entry' = e
    /\ entryCancelled' = cancelled
    /\ UNCHANGED <<envVars, c, cancelled, result, reqVars, iterations, sleepDuration, werr,
                   delays, fetches, succeeded, failures, lastFetched, ferr, fireVars>>

\* Mutant of WaitStatus: only a ready Object returns at once.
WaitStatus_ReadyOnly ==
    /\ wpc = "status"
    /\ IF o.IndexingStatus = IndexingStatusReady
       THEN wpc' = "done" /\ werr' = NoErr /\ upc' = "done"
       ELSE wpc' = "ctx" /\ werr' = werr /\ upc' = upc
    /\ UNCHANGED <<envVars, c, cancelled, result, reqVars, o, iterations, sleepDuration,
                   histVars, fireVars>>

\* if o.IndexingStatus != IndexingStatusIndexing { return nil }
WaitStatus ==
    /\ wpc = "status"
    /\ IF o.IndexingStatus # IndexingStatusIndexing
       THEN wpc' = "done" /\ werr' = NoErr /\ upc' = "done"
       ELSE wpc' = "ctx" /\ werr' = werr /\ upc' = upc
    /\ UNCHANGED <<envVars, c, cancelled, result, reqVars, o, iterations, sleepDuration,
                   histVars, fireVars>>

\* Mutant of WaitCtx: the context is not looked at before the loop.
WaitCtx_NoCheck ==
    /\ wpc = "ctx"
    /\ wpc' = "loop"
    /\ iterations' = 0
    /\ UNCHANGED <<envVars, c, cancelled, upc, result, reqVars, o, sleepDuration, werr,
                   histVars, fireVars>>

\* if err := ctx.Err(); err != nil { return err }; var iterations int
WaitCtx ==
    /\ wpc = "ctx"
    /\ IF cancelled
       THEN wpc' = "done" /\ werr' = CtxErr /\ upc' = "done"
       ELSE wpc' = "loop" /\ werr' = werr /\ upc' = upc
    /\ iterations' = 0
    /\ UNCHANGED <<envVars, c, cancelled, result, reqVars, o, sleepDuration, histVars, fireVars>>

\* Mutant of WaitLoop: the loop gives up after the short iterations.
WaitLoop_GiveUp ==
    /\ wpc = "loop"
    /\ IF o.IndexingStatus = IndexingStatusIndexing /\ iterations < ShortIterations
       THEN /\ fetches < MaxFetches
            /\ sleepDuration' = SleepFor(iterations)
            /\ wpc' = IF SleepFor(iterations) > 0 THEN "sleep" ELSE "get"
            /\ werr' = werr
            /\ upc' = upc
       ELSE /\ wpc' = "done"
            /\ werr' = NoErr
            /\ upc' = "done"
            /\ sleepDuration' = sleepDuration
    /\ UNCHANGED <<envVars, c, cancelled, result, reqVars, o, iterations, histVars, fireVars>>

\* Mutant of WaitLoop: the loop runs until the Object is ready.
WaitLoop_UntilReady ==
    /\ wpc = "loop"
    /\ IF o.IndexingStatus # IndexingStatusReady
       THEN /\ fetches < MaxFetches
            /\ sleepDuration' = SleepFor(iterations)
            /\ wpc' = IF SleepFor(iterations) > 0 THEN "sleep" ELSE "get"
            /\ werr' = werr
            /\ upc' = upc
       ELSE /\ wpc' = "done"
            /\ werr' = NoErr
            /\ upc' = "done"
            /\ sleepDuration' = sleepDuration
    /\ UNCHANGED <<envVars, c, cancelled, result, reqVars, o, iterations, histVars, fireVars>>

\* The loop's test and the choice of sleepDuration; after the loop, return nil.
WaitLoop ==
    /\ wpc = "loop"
    /\ IF o.IndexingStatus = IndexingStatusIndexing
       THEN /\ fetches < MaxFetches
            /\ sleepDuration' = SleepFor(iterations)
            /\ wpc' = IF SleepFor(iterations) > 0 THEN "sleep" ELSE "get"
            /\ werr' = werr
            /\ upc' = upc
       ELSE /\ wpc' = "done"
            /\ werr' = NoErr
            /\ upc' = "done"
            /\ sleepDuration' = sleepDuration
    /\ UNCHANGED <<envVars, c, cancelled, result, reqVars, o, iterations, histVars, fireVars>>

\* Mutant of WaitSleep: the sleep runs to its end whatever the context does
\* (time.Sleep in place of the select).
WaitSleep_Uninterrupted ==
    /\ wpc = "sleep"
    /\ wpc' = "get"
    /\ UNCHANGED <<envVars, c, cancelled, upc, result, reqVars, o, iterations, sleepDuration,
                   werr, histVars, fireVars>>

\* select { case <-ctx.Done(): return ctx.Err(); case <-time.After(sleepDuration): }
\* The select takes the channel that is ready first: the context's when it is
\* cancelled before the timer fires, the timer's otherwise.
WaitSleep ==
    /\ wpc = "sleep"
    /\ IF cancelled
       THEN wpc' = "done" /\ werr' = CtxErr /\ upc' = "done"
       ELSE wpc' = "get" /\ werr' = werr /\ upc' = upc
    /\ UNCHANGED <<envVars, c, cancelled, result, reqVars, o, iterations, sleepDuration,
                   histVars, fireVars>>

\* client.GetObject(ctx, o.ID, nil) is called: it allocates the result and
\* calls doRequest.
WaitGet ==
    /\ wpc = "get"
    /\ wpc' = "fetching"
    /\ fetches' = fetches + 1
    /\ delays' = Append(delays, sleepDuration)
    /\ rq' = GetObjectRequest(o.ID, FALSE)
    /\ rpc' = "build"
    /\ req' = NoReq
    /\ httpc' = "nil"
    /\ resp' = NoResp
    /\ rerr' = NoErr
    /\ dst' = ZeroObject
    /\ trips' = 0
    /\ started' = c
    /\ UNCHANGED <<envVars, c, cancelled, upc, result, o, iterations, sleepDuration, werr,
                   entry, entryCancelled, succeeded, failures, lastFetched, ferr,
                   fireVars>>

\* Mutant of WaitFetchReturn: a failed fetch is tried again.
WaitFetchReturn_Retry ==
    /\ wpc = "fetching"
    /\ rpc = "ret"
    /\ LET got == TypedReturn(rerr, dst, rq.hasDst) IN
        IF got.err # NoErr
        THEN /\ wpc' = "loop"
             /\ failures' = failures + 1
             /\ ferr' = got.err
             /\ UNCHANGED <<o, werr, upc, iterations, succeeded, lastFetched, reqVars>>
        ELSE /\ wpc' = "loop"
             /\ o' = AssignObject(o, got.obj)
             /\ iterations' = iterations + 1
             /\ succeeded' = succeeded + 1
             /\ lastFetched' = got.obj
             /\ rpc' = "off"
             /\ rq' = NoRq
             /\ req' = NoReq
             /\ httpc' = "nil"
             /\ resp' = NoResp
             /\ dst' = ZeroObject
             /\ trips' = 0
             /\ started' = NoClient
             /\ UNCHANGED <<werr, upc, failures, ferr, rerr>>
    /\ UNCHANGED <<envVars, c, cancelled, result, sleepDuration, entry, entryCancelled,
                   delays, fetches, fireVars>>

\* GetObject returns to Wait: on an error Wait returns it; otherwise the
\* Object fetched replaces the caller's and iterations is incremented.
WaitFetchReturn ==
    /\ wpc = "fetching"
    /\ rpc = "ret"
    /\ LET got == TypedReturn(rerr, dst, rq.hasDst) IN
        IF got.err # NoErr
        THEN /\ wpc' = "done"
             /\ werr' = got.err
             /\ upc' = "done"
             /\ failures' = failures + 1
             /\ ferr' = got.err
             /\ UNCHANGED <<o, iterations, succeeded, lastFetched, reqVars>>
        ELSE /\ wpc' = "loop"
             /\ o' = AssignObject(o, got.obj)
             /\ iterations' = iterations + 1
             /\ succeeded' = succeeded + 1
             /\ lastFetched' = got.obj
             /\ rpc' = "off"
             /\ rq' = NoRq
             /\ req' = NoReq
             /\ httpc' = "nil"
             /\ resp' = NoResp
             /\ dst' = ZeroObject
             /\ trips' = 0
             /\ started' = NoClient
             /\ UNCHANGED <<werr, upc, failures, ferr, rerr>>
    /\ UNCHANGED <<envVars, c, cancelled, result, sleepDuration, entry, entryCancelled,
                   delays, fetches, fireVars>>

(***************************************************************************)
(* The caller's context.                                                   *)
(***************************************************************************)
\* The context is cancelled (its cancel function is called, or its deadline
\* passes), at any moment.
Cancel ==
    /\ ~cancelled
    /\ cancelled' = TRUE
    /\ firedAt' = wpc
    /\ firedFetches' = fetches
    /\ UNCHANGED <<envVars, c, upc, result, reqVars, waitVars, histVars>>

(***************************************************************************)
(* The specification.                                                      *)
(***************************************************************************)
Init ==
    /\ c \in {NewClient(k) : k \in ApiKeys}
    /\ cancelled = FALSE
    /\ upc = "idle"
    /\ result = NoResult
    /\ rpc = "off"
    /\ rq = NoRq
    /\ req = NoReq
    /\ httpc = "nil"
    /\ resp = NoResp
    /\ rerr = NoErr
    /\ dst = ZeroObject
    /\ trips = 0
    /\ started = NoClient
    /\ remote = IndexingStatusIndexing
    /\ wpc = "off"
    /\ o = ZeroObject
    /\ iterations = 0
    /\ sleepDuration = 0
    /\ werr = NoErr
    /\ entry = ZeroObject
    /\ entryCancelled = FALSE
    /\ delays = <<>>
    /\ fetches = 0
    /\ succeeded = 0
    /\ failures = 0
    /\ lastFetched = ZeroObject
    /\ ferr = NoErr
    /\ firedAt = "never"
    /\ firedFetches = 0

Next ==
    \/ \E e \in EndpointArgs : WithEndpoint(e)
    \/ \E h \in HTTPClientArgs : WithHTTPClient(h)
    \/ Cancel
    \/ \E q \in TypedOps : CallOp(q)
    \/ DoBuild
    \/ DoClient
    \/ DoSend
    \/ DoHandle
    \/ OpReturn
    \/ \E e \in WaitArgs : CallWait(e)
    \/ WaitStatus
    \/ WaitCtx
    \/ WaitLoop
    \/ WaitSleep
    \/ WaitGet
    \/ WaitFetchReturn

Spec == Init /\ [][Next]_vars

(***************************************************************************)
(* Properties.                                                             *)
(***************************************************************************)
Terminal(e) == e.IndexingStatus \in {IndexingStatusReady, IndexingStatusError}

Pending(e) == e.IndexingStatus = IndexingStatusIndexing

WaitReturned == wpc = "done"

\* C1: Wait on an Object that is already ready or failed starts no fetch,
\* never changes the Object and returns nil, whatever the context's state.
C1_TerminalWaitIsNoOp ==
    (wpc # "off" /\ Terminal(entry)) =>
        /\ fetches = 0
        /\ o = entry
        /\ wpc \in {"status", "done"}
        /\ (WaitReturned => werr = NoErr)

\* C1 witness: Wait returned on a failed Object under a cancelled context.
C1_Witness ==
    /\ WaitReturned
    /\ entry.IndexingStatus = IndexingStatusError
    /\ entryCancelled
    /\ werr = NoErr

\* The delay the schedule gives fetch k (counted from 0), in milliseconds.
ScheduledDelay(k) ==
    IF k = 0 THEN 0 ELSE IF k <= 9 THEN 300 ELSE 1000

\* C2: the delay before the k-th fetch of a Wait is 0 for k = 0, 300 ms for
\* 1 <= k <= 9 and 1000 ms for k >= 10; the delays recorded over N fetches
\* are that schedule's first N entries.
C2_BackoffSchedule ==
    /\ Len(delays) = fetches
    /\ delays = [k \in 1..fetches |-> ScheduledDelay(k - 1)]

\* C2 witness: the Object stayed pending for ten fetches and the eleventh,
\* after a 1000 ms delay, found it ready.
C2_Witness ==
    /\ WaitReturned
    /\ werr = NoErr
    /\ fetches = 11
    /\ delays[1] = 0
    /\ delays[10] = 300
    /\ delays[11] = 1000

\* C3: Wait called on a pending Object under a context already cancelled
\* returns the context's error, starts no fetch and leaves the Object alone.
C3_CancelledAtEntry ==
    (wpc # "off" /\ Pending(entry) /\ entryCancelled) =>
        /\ fetches = 0
        /\ o = entry
        /\ wpc \in {"status", "ctx", "done"}
        /\ (WaitReturned => werr = CtxErr)

\* C3 witness: such a Wait returned.
C3_Witness ==
    /\ WaitReturned
    /\ Pending(entry)
    /\ entryCancelled
    /\ werr = CtxErr

\* C4 as claimed: Wait never starts a fetch once the context is cancelled.
C4_NoFetchAfterCancel ==
    [][fetches' = fetches + 1 => ~cancelled]_vars

\* C4 amended: a sleep that begins or runs under a cancelled context ends
\* with Wait returning the context's error and no further fetch; a fetch
\* starts under a cancelled context only when the context was cancelled
\* after Wait last looked at it, that is between the check at entry and the
\* first fetch or between the end of a sleep and the fetch that follows it.
C4_CancelInterruptsSleep ==
    [][/\ (wpc = "sleep" /\ cancelled /\ wpc' # wpc) =>
            (wpc' = "done" /\ werr' = CtxErr /\ fetches' = fetches)
       /\ (fetches' = fetches + 1 /\ cancelled) =>
            (firedAt \in {"loop", "get"} /\ firedFetches = fetches)]_vars

\* C4 witness: the context was cancelled during a sleep that followed a
\* fetch, and Wait returned the context's error.
C4_Witness ==
    /\ WaitReturned
    /\ firedAt = "sleep"
    /\ werr = CtxErr
    /\ fetches >= 1
    /\ firedFetches = fetches

\* C5: the first fetch that fails ends the Wait: Wait returns that error,
\* the failed request is sent once, and no fetch or sleep follows.
C5_FetchFailureAborts ==
    /\ [](/\ failures <= 1
          /\ trips <= 1
          /\ (failures = 1 =>
                (WaitReturned /\ werr = ferr /\ werr = rerr /\ werr # NoErr)))
    /\ [][failures >= 1 =>
            (fetches' = fetches /\ delays' = delays /\ trips' = trips
             /\ wpc' = "done" /\ werr' = werr)]_vars

\* C5 witness: the third fetch failed and Wait returned its error.
C5_Witness ==
    /\ WaitReturned
    /\ failures = 1
    /\ succeeded = 2
    /\ fetches = 3
    /\ werr = NetErr

\* C6: on a response with status >= 400 doRequest returns an error holding
\* the response's status, with its number, and its body; nothing is decoded
\* into dst and client.Do was called once.
C6_StatusError ==
    (rpc = "ret" /\ resp.StatusCode >= 400) =>
        /\ rerr.kind = "status"
        /\ rerr.status = resp.Status
        /\ rerr.status.code = resp.StatusCode
        /\ rerr.body = resp.Body
        /\ dst = ZeroObject
        /\ trips = 1

\* C6 witness: a 400 response whose body is a JSON object, to a call with a
\* destination.
C6_Witness ==
    /\ rpc = "ret"
    /\ resp.StatusCode = 400
    /\ resp.Body.kind = "object"
    /\ rq.hasDst

\* C7: a typed operation whose doRequest failed returns that error and a
\* nil result; it returns no error only when doRequest returned none.
C7_ErrorMeansNoResult ==
    (upc = "done" /\ wpc = "off") =>
        /\ (rerr # NoErr => (result.err = rerr /\ result.ptr = "nil" /\ result.obj = ZeroObject))
        /\ (result.err # NoErr => result.ptr = "nil")
        /\ (result.err = NoErr => rerr = NoErr)

\* C7 witness: decoding failed after part of the result had been stored.
C7_Witness ==
    /\ upc = "done"
    /\ wpc = "off"
    /\ rerr = DecodeErr
    /\ dst # ZeroObject
    /\ result.ptr = "nil"

\* C8 as claimed: every request sent carries an Authorization header set to
\* the client's API key.
C8_AlwaysAuthorized ==
    trips >= 1 =>
        /\ "Authorization" \in DOMAIN req.header
        /\ req.header["Authorization"] = c.apiKey

\* C8 amended: every request sent by a client whose API key is not empty
\* carries an Authorization header set to that key; a client whose API key
\* is empty sends its requests without an Authorization header.
C8_AuthorizedWhenKeyed ==
    trips >= 1 =>
        IF c.apiKey # ""
        THEN /\ "Authorization" \in DOMAIN req.header
             /\ req.header["Authorization"] = c.apiKey
        ELSE "Authorization" \notin DOMAIN req.header

\* C8 witness: a request without a body was sent by a client with a key.
C8_Witness ==
    /\ trips >= 1
    /\ c.apiKey = "key"
    /\ rq.body = "nil"
    /\ req.header["Authorization"] = "key"

\* C9: Wait returns nil only with an Object that is not pending, the
\* context's error only under a cancelled context, and any other error only
\* as the error of its failed fetch; it has not returned while the Object is
\* pending, no fetch failed and the context is not cancelled.
C9_ReturnReasons ==
    WaitReturned =>
        /\ \/ werr = NoErr /\ ~Pending(o)
           \/ werr = CtxErr /\ cancelled
           \/ werr \notin {NoErr, CtxErr} /\ failures = 1 /\ werr = ferr /\ werr = rerr
        /\ ~(Pending(o) /\ failures = 0 /\ ~cancelled)

\* C9 witness: Wait returned nil after more fetches than the short
\* iterations, having slept 1000 ms.
C9_Witness ==
    /\ WaitReturned
    /\ werr = NoErr
    /\ succeeded > ShortIterations
    /\ ~cancelled

\* C10: throughout a Wait and at its return the caller's Object is the one
\* passed in while no fetch has succeeded, and afterwards the one the last
\* successful fetch returned.
C10_ObjectIsLastFetched ==
    wpc # "off" => o = (IF succeeded = 0 THEN entry ELSE lastFetched)

\* C10 witness: after a successful fetch changed the Object, a fetch failed
\* in decoding with part of its result stored.
C10_Witness ==
    /\ WaitReturned
    /\ succeeded >= 1
    /\ werr = DecodeErr
    /\ dst # ZeroObject
    /\ o # entry
    /\ o = lastFetched

(***************************************************************************)
(* Wait against a service that finishes indexing: the Object's status at   *)
(* the service leaves "indexing" once and for all, every fetch is answered *)
(* with the Object as the service holds it, and the context is never       *)
(* cancelled.  The caller's goroutine keeps running and its timers fire.   *)
(***************************************************************************)
\* The service finishes indexing the Object, with success or with an error.
RemoteFinish(s) ==
    /\ remote = IndexingStatusIndexing
    /\ remote' = s
    /\ UNCHANGED <<c, cancelled, upc, result, reqVars, waitVars, histVars, fireVars>>

\* The Object the service serves for a GetObject request.
RemoteObject(q) == [ID |-> q.path[2], IndexingStatus |-> remote]

\* client.Do(req) answered by the service with the Object as it holds it; the
\* service has finished before the last fetch of the model is answered.
LiveSend ==
    /\ remote = IndexingStatusIndexing => fetches < MaxFetches
    /\ DoSend
    /\ rpc' = "handle"
    /\ resp' = [StatusCode |-> 200, Status |-> StatusLine(200),
                Body |-> [kind |-> "object", val |-> RemoteObject(rq)]]

\* Wait is called on an Object obtained from the service earlier: pending,
\* or in the final status the service holds.
LiveCallWait(e) ==
    /\ Pending(e) \/ e.IndexingStatus = remote
    /\ CallWait(e)

\* The steps of the caller's goroutine inside Wait.
WaitProgress ==
    \/ WaitStatus
    \/ WaitCtx
    \/ WaitLoop
    \/ WaitSleep
    \/ WaitGet
    \/ DoBuild
    \/ DoClient
    \/ LiveSend
    \/ DoHandle
    \/ WaitFetchReturn

LiveNext ==
    \/ \E e \in WaitArgs : LiveCallWait(e)
    \/ WaitProgress
    \/ \E s \in {IndexingStatusReady, IndexingStatusError} : RemoteFinish(s)
    \/ \E h \in HTTPClientArgs : WithHTTPClient(h)
    \/ \E e \in {x \in EndpointArgs : URLValid(x)} : WithEndpoint(e)

LiveSpec ==
    /\ Init
    /\ [][LiveNext]_vars
    /\ WF_vars(WaitProgress)
    /\ WF_vars(\E s \in {IndexingStatusReady, IndexingStatusError} : RemoteFinish(s))

\* C11: against a service that finishes indexing, with every fetch answered
\* and the context never cancelled, a Wait that was called returns nil, and
\* the status it leaves in the caller's Object is the final status the
\* service holds.
C11_WaitReturnsTerminal ==
    (upc = "wait") ~>
        (WaitReturned /\ werr = NoErr /\ Terminal(o) /\ o.IndexingStatus = remote)

\* C11 witness: Wait returned nil after polling a pending Object that the
\* service finished with an error while Wait was polling.
C11_Witness ==
    /\ WaitReturned
    /\ werr = NoErr
    /\ Pending(entry)
    /\ fetches >= 3
    /\ remote = IndexingStatusError
    /\ o.IndexingStatus = IndexingStatusError

\* What doRequest builds from the Client as it was when the call started.
BuiltAtStart == BuildRequest(started, rq)

\* C12 as claimed: a doRequest in progress uses the endpoint, the API key
\* and the HTTP client the Client had when the call started, whatever
\* WithEndpoint and WithHTTPClient do meanwhile.
C12_InFlightCallUnaffected ==
    [][/\ (rpc = "build" /\ rpc' # rpc) =>
            (req' = BuiltAtStart.req /\ rerr' = BuiltAtStart.err)
       /\ (rpc = "client" /\ rpc' # rpc) =>
            httpc' = (IF started.client = "nil" THEN "DefaultClient" ELSE started.client)]_vars

\* C13 as claimed: the Client's endpoint never ends with a slash.
C13_NoTrailingSlash ==
    Len(c.endpoint) = 0 \/ c.endpoint[Len(c.endpoint)] # "/"

====
